---- MODULE Spec2Model ----
(***************************************************************************)
(* The editable grid of DATAPROCESS/FUNCTIONS/editable_table.py: the       *)
(* EditableTable widget with its command classes, its undo and redo stacks *)
(* and the two signal handlers (on_item_changed, on_current_item_changed)  *)
(* that Qt runs synchronously inside every cell write, and of the viewer   *)
(* of DATAPROCESS/CONTROLLER/data_viewer.py what acts on the table: the    *)
(* load of the file, the modified flag, the column display and the         *)
(* difference of two columns.                                              *)
(*                                                                         *)
(* Rows and columns are numbered from 0 as in the source; the sequences    *)
(* that hold them are indexed from 1, so cell (r, c) is grid[r+1][c+1].    *)
(* A cell text is a sequence of one-character strings; the empty text is   *)
(* the empty sequence.                                                     *)
(***************************************************************************)
EXTENDS Integers, Sequences, FiniteSets, TLC

VARIABLES
    grid,            \* rows of cells; a cell is [item, text, cur]
    columnCount,     \* QTableWidget.columnCount()
    header,          \* horizontal header items, one per column
    currentIndex,    \* Qt's current index <<row, col>>, NoIndex when invalid
    current_text,    \* self._current_text
    undo_stack,      \* self.undo_stack
    redo_stack,      \* self.redo_stack
    selection,       \* the selected cells <<row, col>>, in the selection model's order
    column_selection_order,  \* self.column_selection_order
    hidden,          \* the columns for which isColumnHidden(col) holds
    current_selection_start,  \* self.current_selection_start, -1 for None
    modified,        \* CSVViewer.modified
    npush,           \* number of push_command calls made so far
    emitted,         \* number of contentChanged emissions of the last operation
    pushes,          \* the push_command calls of the last operation
    recordings,      \* what on_item_changed found each time it recorded in the last operation
    nops,            \* number of operations performed so far
    last,            \* the operation performed last
    prev,            \* the table as it was before that operation
    phase,           \* where a scripted run stands: forward, undo, redo
    mark             \* the operations of a scripted run's forward part

vars == <<grid, columnCount, header, currentIndex, current_text,
          undo_stack, redo_stack, selection, column_selection_order, hidden,
          current_selection_start, modified, npush, emitted, pushes, recordings,
          nops, last, prev, phase, mark>>

(***************************************************************************)
(* Bounds of the model.                                                    *)
(***************************************************************************)
MaxOps == 3
MaxSelectOps == 4
MaxRows == 3
MaxCols == 3
\* self.max_history is 50 in __init__; the model runs with a small capacity
max_history == 2

NoIndex == <<-1, -1>>
EmptyText == <<>>
TAB == "\t"
NL == "\n"

\* a cell that holds no QTableWidgetItem (table.item(r, c) is None)
NoItem == [item |-> FALSE, text |-> EmptyText, cur |-> FALSE]
\* a header section with no QTableWidgetItem
NoHeader == [item |-> FALSE, text |-> ""]

(***************************************************************************)
(* Sequence helpers.                                                       *)
(***************************************************************************)
InsertAt(seq, i, x) ==
    [k \in 1..(Len(seq) + 1) |->
        IF k < i THEN seq[k] ELSE IF k = i THEN x ELSE seq[k - 1]]

RemoveAt(seq, i) ==
    [k \in 1..(Len(seq) - 1) |-> IF k < i THEN seq[k] ELSE seq[k + 1]]

(***************************************************************************)
(* The table as one record, so that a handler can be applied in the middle *)
(* of a command's replay.  An operation starts with nothing emitted,       *)
(* pushed or recorded by it yet.                                           *)
(***************************************************************************)
State ==
    [grid |-> grid, columnCount |-> columnCount, header |-> header,
     currentIndex |-> currentIndex, current_text |-> current_text,
     undo_stack |-> undo_stack, redo_stack |-> redo_stack,
     selection |-> selection, column_selection_order |-> column_selection_order,
     hidden |-> hidden, current_selection_start |-> current_selection_start,
     modified |-> modified, npush |-> npush,
     emitted |-> 0, pushes |-> <<>>, recordings |-> <<>>]

rowCount(s) == Len(s.grid)

InRange(s, r, c) == r >= 0 /\ r < rowCount(s) /\ c >= 0 /\ c < s.columnCount

\* table.item(r, c) is not None
hasItem(s, r, c) == InRange(s, r, c) /\ s.grid[r + 1][c + 1].item

\* item.text() if item else ""
cellText(s, r, c) == IF hasItem(s, r, c) THEN s.grid[r + 1][c + 1].text ELSE EmptyText

\* header_item.text() if header_item else "列{col+1}"
headerText(s, c) ==
    IF s.header[c + 1].item THEN s.header[c + 1].text ELSE "lie" \o ToString(c + 1)

\* what a reader of the table sees: the counts and the text of every cell
TextsOf(s) ==
    [rows |-> rowCount(s), cols |-> s.columnCount,
     text |-> [i \in 1..rowCount(s) |->
                [j \in 1..s.columnCount |-> cellText(s, i - 1, j - 1)]]]

HeadersOf(s) == [j \in 1..s.columnCount |-> headerText(s, j - 1)]

(***************************************************************************)
(* History: push_command.  Each call is noted in pushes with the texts the *)
(* table held when it was made.                                            *)
(***************************************************************************)
PushNoted(s, command) ==
    Append(s.pushes, [command |-> command, texts |-> TextsOf(s)])

\* push_command without "self.redo_stack.clear()"
push_command_KeepsRedo(s, command) ==
    LET appended == Append(s.undo_stack, command)
    IN  [s EXCEPT !.undo_stack = IF Len(appended) > max_history
                                 THEN Tail(appended) ELSE appended,
                  !.npush = s.npush + 1,
                  !.pushes = PushNoted(s, command)]

\* push_command with "self.undo_stack.pop()" for "self.undo_stack.pop(0)"
push_command_EvictsNewest(s, command) ==
    LET appended == Append(s.undo_stack, command)
    IN  [s EXCEPT !.undo_stack = IF Len(appended) > max_history
                                 THEN SubSeq(appended, 1, Len(appended) - 1)
                                 ELSE appended,
                  !.redo_stack = <<>>,
                  !.npush = s.npush + 1,
                  !.pushes = PushNoted(s, command)]

push_command(s, command) ==
    LET appended == Append(s.undo_stack, command)
    IN  [s EXCEPT !.undo_stack = IF Len(appended) > max_history
                                 THEN Tail(appended) ELSE appended,
                  !.redo_stack = <<>>,
                  !.npush = s.npush + 1,
                  !.pushes = PushNoted(s, command)]

CellChangeCommand(row, col, old_text, new_text) ==
    [kind |-> "CellChange", row |-> row, col |-> col,
     old_text |-> old_text, new_text |-> new_text]

(***************************************************************************)
(* Signal handlers.                                                        *)
(***************************************************************************)
\* CSVViewer.on_content_changed, the slot connected to contentChanged
on_content_changed(s) == [s EXCEPT !.modified = TRUE]

\* self.contentChanged.emit(): the slot runs before emit() returns
contentChanged_emit(s) == on_content_changed([s EXCEPT !.emitted = s.emitted + 1])

\* what on_item_changed finds when it starts to record
Found(s) ==
    [texts |-> TextsOf(s), undo_stack |-> s.undo_stack, redo_stack |-> s.redo_stack]

\* itemChanged(item) for the item at (r, c); item.cur says whether the item
\* is the object self._current_item refers to; self.cellValueChanged is
\* None, nothing assigns it
on_item_changed(s, r, c) ==
    LET it == s.grid[r + 1][c + 1]
    IN  IF it.cur /\ it.text # s.current_text
        THEN contentChanged_emit(
                [push_command(s, CellChangeCommand(r, c, s.current_text, it.text))
                    EXCEPT !.current_text = it.text,
                           !.recordings = Append(s.recordings, Found(s))])
        ELSE IF it.cur THEN [s EXCEPT !.current_text = it.text]
        ELSE s

ClearCur(g) ==
    [i \in DOMAIN g |-> [j \in DOMAIN g[i] |-> [g[i][j] EXCEPT !.cur = FALSE]]]

\* currentItemChanged(current, previous), current being the item at idx
on_current_item_changed(s, idx) ==
    LET g == ClearCur(s.grid)
    IN  IF idx # NoIndex /\ hasItem(s, idx[1], idx[2])
        THEN [s EXCEPT !.grid = [g EXCEPT ![idx[1] + 1][idx[2] + 1].cur = TRUE],
                       !.current_text = s.grid[idx[1] + 1][idx[2] + 1].text]
        ELSE [s EXCEPT !.grid = g, !.current_text = EmptyText]

(***************************************************************************)
(* The QTableWidget calls the source makes.                                *)
(***************************************************************************)
\* the selection model and the header follow the rows and columns: a
\* selected cell and a hidden column move with an insert or a remove, and
\* the cells of a removed row or column leave the selection
ShiftCells(sel, k, from, by) ==
    [n \in DOMAIN sel |->
        IF sel[n][k] >= from
        THEN [sel[n] EXCEPT ![k] = sel[n][k] + by] ELSE sel[n]]

DropCells(sel, k, at) ==
    LET Keep(x) == x[k] # at
    IN  ShiftCells(SelectSeq(sel, Keep), k, at, -1)

\* the selection model moves the current index and the widget emits
\* currentItemChanged
setCurrentIndex(s, idx) ==
    IF idx = s.currentIndex THEN s
    ELSE on_current_item_changed([s EXCEPT !.currentIndex = idx], idx)

\* item.setText(text) on the item at (r, c): itemChanged is emitted when the
\* text differs
setText(s, r, c, text) ==
    IF s.grid[r + 1][c + 1].text = text THEN s
    ELSE on_item_changed([s EXCEPT !.grid[r + 1][c + 1].text = text], r, c)

\* table.setItem(r, c, QTableWidgetItem(text)): a new item object, never the
\* one self._current_item refers to; out of range the call does nothing
setItem(s, r, c, text) ==
    IF ~InRange(s, r, c) THEN s
    ELSE on_item_changed(
            [s EXCEPT !.grid[r + 1][c + 1] =
                [item |-> TRUE, text |-> text, cur |-> FALSE]], r, c)

\* item = table.item(r, c); item.setText(text) if item else table.setItem(...)
writeCell(s, r, c, text) ==
    IF hasItem(s, r, c) THEN setText(s, r, c, text) ELSE setItem(s, r, c, text)

insertRow(s, r) ==
    IF r < 0 \/ r > rowCount(s) THEN s
    ELSE [s EXCEPT
            !.grid = InsertAt(s.grid, r + 1, [j \in 1..s.columnCount |-> NoItem]),
            !.selection = ShiftCells(s.selection, 1, r, 1),
            !.currentIndex = IF s.currentIndex # NoIndex /\ s.currentIndex[1] >= r
                             THEN <<s.currentIndex[1] + 1, s.currentIndex[2]>>
                             ELSE s.currentIndex]

insertColumn(s, c) ==
    IF c < 0 \/ c > s.columnCount THEN s
    ELSE [s EXCEPT
            !.grid = [i \in DOMAIN s.grid |-> InsertAt(s.grid[i], c + 1, NoItem)],
            !.header = InsertAt(s.header, c + 1, NoHeader),
            !.columnCount = s.columnCount + 1,
            !.selection = ShiftCells(s.selection, 2, c, 1),
            !.hidden = {IF h >= c THEN h + 1 ELSE h : h \in s.hidden},
            !.currentIndex = IF s.currentIndex # NoIndex /\ s.currentIndex[2] >= c
                             THEN <<s.currentIndex[1], s.currentIndex[2] + 1>>
                             ELSE s.currentIndex]

\* removing the current row moves the current index to the row above, else to
\* the row below, else makes it invalid, before the row goes
removeRow(s, r) ==
    IF r < 0 \/ r >= rowCount(s) THEN s
    ELSE LET ci == s.currentIndex
             moved == IF ci # NoIndex /\ ci[1] = r
                      THEN setCurrentIndex(s,
                              IF r > 0 THEN <<r - 1, ci[2]>>
                              ELSE IF r < rowCount(s) - 1 THEN <<r + 1, ci[2]>>
                              ELSE NoIndex)
                      ELSE s
             mi == moved.currentIndex
         IN  [moved EXCEPT
                !.grid = RemoveAt(moved.grid, r + 1),
                !.selection = DropCells(moved.selection, 1, r),
                !.currentIndex = IF mi # NoIndex /\ mi[1] > r
                                 THEN <<mi[1] - 1, mi[2]>> ELSE mi]

removeColumn(s, c) ==
    IF c < 0 \/ c >= s.columnCount THEN s
    ELSE LET ci == s.currentIndex
             moved == IF ci # NoIndex /\ ci[2] = c
                      THEN setCurrentIndex(s,
                              IF c > 0 THEN <<ci[1], c - 1>>
                              ELSE IF c < s.columnCount - 1 THEN <<ci[1], c + 1>>
                              ELSE NoIndex)
                      ELSE s
             mi == moved.currentIndex
         IN  [moved EXCEPT
                !.grid = [i \in DOMAIN moved.grid |-> RemoveAt(moved.grid[i], c + 1)],
                !.header = RemoveAt(moved.header, c + 1),
                !.columnCount = moved.columnCount - 1,
                !.selection = DropCells(moved.selection, 2, c),
                !.hidden = {IF h > c THEN h - 1 ELSE h : h \in moved.hidden \ {c}},
                !.currentIndex = IF mi # NoIndex /\ mi[2] > c
                                 THEN <<mi[1], mi[2] - 1>> ELSE mi]

\* table.setRowCount(n): rows are added at the end, or removed from the end
RECURSIVE setRowCount(_, _)
setRowCount(s, n) ==
    IF n < rowCount(s) THEN setRowCount(removeRow(s, rowCount(s) - 1), n)
    ELSE [s EXCEPT !.grid = [i \in 1..n |->
            IF i <= Len(s.grid) THEN s.grid[i] ELSE [j \in 1..s.columnCount |-> NoItem]]]

\* table.setColumnCount(n): columns are added at the end, or removed from
\* the end
RECURSIVE setColumnCount(_, _)
setColumnCount(s, n) ==
    IF n < s.columnCount THEN setColumnCount(removeColumn(s, s.columnCount - 1), n)
    ELSE [s EXCEPT
            !.grid = [i \in DOMAIN s.grid |->
                        [j \in 1..n |-> IF j <= s.columnCount THEN s.grid[i][j] ELSE NoItem]],
            !.header = [j \in 1..n |-> IF j <= s.columnCount THEN s.header[j] ELSE NoHeader],
            !.columnCount = n]

setHorizontalHeaderItem(s, c, text) ==
    IF c < 0 \/ c >= s.columnCount THEN s
    ELSE [s EXCEPT !.header[c + 1] = [item |-> TRUE, text |-> text]]

(***************************************************************************)
(* The command classes.  A command is a record that carries its kind and   *)
(* the fields its class stores.                                            *)
(***************************************************************************)
InsertRowCommand(row) == [kind |-> "InsertRow", row |-> row]

InsertColumnCommand(col) == [kind |-> "InsertColumn", col |-> col]

DeleteRowCommand(row, row_data) ==
    [kind |-> "DeleteRow", row |-> row, row_data |-> row_data]

DeleteColumnCommand(col, col_data, header_text) ==
    [kind |-> "DeleteColumn", col |-> col, col_data |-> col_data,
     header_text |-> header_text]

PasteCommand(start_row, start_col, old_data, new_data) ==
    [kind |-> "Paste", start_row |-> start_row, start_col |-> start_col,
     old_data |-> old_data, new_data |-> new_data]

\* for k, text in enumerate(data): table.setItem(row0 + k*dr, col0 + k*dc, text),
\* from the k-th entry on; a target outside the table is skipped
RECURSIVE setItems(_, _, _, _, _, _, _)
setItems(s, data, k, row0, col0, dr, dc) ==
    IF k > Len(data) THEN s
    ELSE setItems(setItem(s, row0 + (k - 1) * dr, col0 + (k - 1) * dc, data[k]),
                  data, k + 1, row0, col0, dr, dc)

\* CellChangeCommand.undo writing new_text for old_text
CellChangeCommand_undo_WritesNew(cmd, s) ==
    IF cmd.row < rowCount(s) /\ cmd.col < s.columnCount
    THEN writeCell(s, cmd.row, cmd.col, cmd.new_text)
    ELSE s

CellChangeCommand_undo(cmd, s) ==
    IF cmd.row < rowCount(s) /\ cmd.col < s.columnCount
    THEN writeCell(s, cmd.row, cmd.col, cmd.old_text)
    ELSE s

CellChangeCommand_redo(cmd, s) ==
    IF cmd.row < rowCount(s) /\ cmd.col < s.columnCount
    THEN writeCell(s, cmd.row, cmd.col, cmd.new_text)
    ELSE s

InsertRowCommand_undo(cmd, s) ==
    IF cmd.row < rowCount(s) THEN removeRow(s, cmd.row) ELSE s

InsertRowCommand_redo(cmd, s) ==
    LET t == insertRow(s, cmd.row)
    IN  setItems(t, [j \in 1..t.columnCount |-> EmptyText], 1, cmd.row, 0, 0, 1)

InsertColumnCommand_undo(cmd, s) ==
    IF cmd.col < s.columnCount THEN removeColumn(s, cmd.col) ELSE s

InsertColumnCommand_redo(cmd, s) ==
    LET t == insertColumn(s, cmd.col)
    IN  setItems(t, [i \in 1..rowCount(t) |-> EmptyText], 1, 0, cmd.col, 1, 0)

\* DeleteRowCommand.undo without the loop that restores row_data
DeleteRowCommand_undo_NoData(cmd, s) == insertRow(s, cmd.row)

DeleteRowCommand_undo(cmd, s) ==
    setItems(insertRow(s, cmd.row), cmd.row_data, 1, cmd.row, 0, 0, 1)

DeleteRowCommand_redo(cmd, s) ==
    IF cmd.row < rowCount(s) THEN removeRow(s, cmd.row) ELSE s

\* DeleteColumnCommand.undo without setHorizontalHeaderItem
DeleteColumnCommand_undo_NoHeader(cmd, s) ==
    setItems(insertColumn(s, cmd.col), cmd.col_data, 1, 0, cmd.col, 1, 0)

DeleteColumnCommand_undo(cmd, s) ==
    LET t == setHorizontalHeaderItem(insertColumn(s, cmd.col), cmd.col, cmd.header_text)
    IN  setItems(t, cmd.col_data, 1, 0, cmd.col, 1, 0)

DeleteColumnCommand_redo(cmd, s) ==
    IF cmd.col < s.columnCount THEN removeColumn(s, cmd.col) ELSE s

\* the two nested loops of PasteCommand.undo, from cell (i, j) of old_data on
RECURSIVE PasteCommand_undo_from(_, _, _, _)
PasteCommand_undo_from(cmd, s, i, j) ==
    IF i > Len(cmd.old_data) THEN s
    ELSE IF j > Len(cmd.old_data[i]) THEN PasteCommand_undo_from(cmd, s, i + 1, 1)
    ELSE LET row_pos == cmd.start_row + (i - 1)
             col_pos == cmd.start_col + (j - 1)
             t == IF row_pos < rowCount(s) /\ col_pos < s.columnCount
                  THEN writeCell(s, row_pos, col_pos, cmd.old_data[i][j])
                  ELSE s
         IN  PasteCommand_undo_from(cmd, t, i, j + 1)

\* PasteCommand.undo that also takes back the rows the paste added
PasteCommand_undo_Shrinks(cmd, s) ==
    LET t == PasteCommand_undo_from(cmd, s, 1, 1)
    IN  IF cmd.start_row + Len(cmd.old_data) >= rowCount(t) /\ rowCount(t) > 1
        THEN [t EXCEPT !.grid = SubSeq(t.grid, 1, rowCount(t) - 1)]
        ELSE t

\* PasteCommand.undo with "col_pos = col_idx" for "col_pos = self.start_col + col_idx"
PasteCommand_undo_IgnoresStartCol(cmd, s) ==
    PasteCommand_undo_from([cmd EXCEPT !.start_col = 0], s, 1, 1)

PasteCommand_undo(cmd, s) == PasteCommand_undo_from(cmd, s, 1, 1)

\* the two nested loops of PasteCommand.redo, from cell (i, j) of new_data on
RECURSIVE PasteCommand_redo_from(_, _, _, _)
PasteCommand_redo_from(cmd, s, i, j) ==
    IF i > Len(cmd.new_data) THEN s
    ELSE IF j > Len(cmd.new_data[i]) THEN PasteCommand_redo_from(cmd, s, i + 1, 1)
    ELSE LET row_pos == cmd.start_row + (i - 1)
             col_pos == cmd.start_col + (j - 1)
             t1 == IF row_pos >= rowCount(s) THEN setRowCount(s, row_pos + 1) ELSE s
             t2 == IF col_pos >= t1.columnCount THEN setColumnCount(t1, col_pos + 1) ELSE t1
         IN  PasteCommand_redo_from(cmd, writeCell(t2, row_pos, col_pos, cmd.new_data[i][j]),
                                    i, j + 1)

PasteCommand_redo(cmd, s) == PasteCommand_redo_from(cmd, s, 1, 1)

\* command.undo(table)
Command_undo(cmd, s) ==
    CASE cmd.kind = "CellChange" -> CellChangeCommand_undo(cmd, s)
      [] cmd.kind = "InsertRow" -> InsertRowCommand_undo(cmd, s)
      [] cmd.kind = "InsertColumn" -> InsertColumnCommand_undo(cmd, s)
      [] cmd.kind = "DeleteRow" -> DeleteRowCommand_undo(cmd, s)
      [] cmd.kind = "DeleteColumn" -> DeleteColumnCommand_undo(cmd, s)
      [] cmd.kind = "Paste" -> PasteCommand_undo(cmd, s)

\* command.redo(table)
Command_redo(cmd, s) ==
    CASE cmd.kind = "CellChange" -> CellChangeCommand_redo(cmd, s)
      [] cmd.kind = "InsertRow" -> InsertRowCommand_redo(cmd, s)
      [] cmd.kind = "InsertColumn" -> InsertColumnCommand_redo(cmd, s)
      [] cmd.kind = "DeleteRow" -> DeleteRowCommand_redo(cmd, s)
      [] cmd.kind = "DeleteColumn" -> DeleteColumnCommand_redo(cmd, s)
      [] cmd.kind = "Paste" -> PasteCommand_redo(cmd, s)

(***************************************************************************)
(* The operations of EditableTable.                                        *)
(***************************************************************************)
\* undo with "self.undo_stack.pop(0)" for "self.undo_stack.pop()"
undo_PopsOldest(s) ==
    IF s.undo_stack = <<>> THEN s
    ELSE LET command == s.undo_stack[1]
             t == Command_undo(command, [s EXCEPT !.undo_stack = Tail(s.undo_stack)])
             appended == Append(t.redo_stack, command)
         IN  [t EXCEPT !.redo_stack = IF Len(appended) > max_history
                                      THEN Tail(appended) ELSE appended]

undo(s) ==
    IF s.undo_stack = <<>> THEN s
    ELSE LET n == Len(s.undo_stack)
             command == s.undo_stack[n]
             t == Command_undo(command, [s EXCEPT !.undo_stack = SubSeq(s.undo_stack, 1, n - 1)])
             appended == Append(t.redo_stack, command)
         IN  [t EXCEPT !.redo_stack = IF Len(appended) > max_history
                                      THEN Tail(appended) ELSE appended]

redo(s) ==
    IF s.redo_stack = <<>> THEN s
    ELSE LET n == Len(s.redo_stack)
             command == s.redo_stack[n]
             t == Command_redo(command, [s EXCEPT !.redo_stack = SubSeq(s.redo_stack, 1, n - 1)])
             appended == Append(t.undo_stack, command)
         IN  [t EXCEPT !.undo_stack = IF Len(appended) > max_history
                                      THEN Tail(appended) ELSE appended]

\* insert_row_at with "InsertRowCommand(row)" for "InsertRowCommand(row + 1)"
insert_row_at_AtRow(s, row) ==
    IF row >= 0
    THEN LET command == InsertRowCommand(row)
         IN  contentChanged_emit(push_command(Command_redo(command, s), command))
    ELSE s

insert_row_at(s, row) ==
    IF row >= -1
    THEN LET command == InsertRowCommand(row + 1)
         IN  contentChanged_emit(push_command(Command_redo(command, s), command))
    ELSE s

insert_column_at(s, col) ==
    IF col >= -1
    THEN LET command == InsertColumnCommand(col + 1)
         IN  contentChanged_emit(push_command(Command_redo(command, s), command))
    ELSE s

\* delete_row_at with "if row >= 0:" for "if row >= 0 and row < self.rowCount():"
delete_row_at_NoUpperBound(s, row) ==
    IF row >= 0
    THEN LET row_data == [j \in 1..s.columnCount |-> cellText(s, row, j - 1)]
             command == DeleteRowCommand(row, row_data)
         IN  push_command(Command_redo(command, s), command)
    ELSE s

delete_row_at(s, row) ==
    IF row >= 0 /\ row < rowCount(s)
    THEN LET row_data == [j \in 1..s.columnCount |-> cellText(s, row, j - 1)]
             command == DeleteRowCommand(row, row_data)
         IN  push_command(Command_redo(command, s), command)
    ELSE s

\* delete_column_at that also takes col out of column_selection_order and
\* moves the entries above it down by one
delete_column_at_ShiftsOrder(s, col) ==
    IF col >= 0 /\ col < s.columnCount
    THEN LET col_data == [i \in 1..rowCount(s) |-> cellText(s, i - 1, col)]
             command == DeleteColumnCommand(col, col_data, headerText(s, col))
             Other(x) == x # col
             kept == SelectSeq(s.column_selection_order, Other)
         IN  [push_command(Command_redo(command, s), command)
                EXCEPT !.column_selection_order =
                    [k \in 1..Len(kept) |-> IF kept[k] > col THEN kept[k] - 1 ELSE kept[k]]]
    ELSE s

delete_column_at(s, col) ==
    IF col >= 0 /\ col < s.columnCount
    THEN LET col_data == [i \in 1..rowCount(s) |-> cellText(s, i - 1, col)]
             command == DeleteColumnCommand(col, col_data, headerText(s, col))
         IN  push_command(Command_redo(command, s), command)
    ELSE s

\* str.split(sep) on a text given as a sequence of characters
RECURSIVE split(_, _)
split(text, sep) ==
    IF \A k \in 1..Len(text) : text[k] # sep THEN <<text>>
    ELSE LET k == CHOOSE k \in 1..Len(text) :
                    text[k] = sep /\ \A m \in 1..(k - 1) : text[m] # sep
         IN  <<SubSeq(text, 1, k - 1)>> \o split(SubSeq(text, k + 1, Len(text)), sep)

\* clipboard_rows without "if rows and not rows[-1]: rows.pop()"
clipboard_rows_KeepsLast(text) == split(text, NL)

\* the rows paste_from_clipboard parses out of the clipboard text
clipboard_rows(text) ==
    LET rows == split(text, NL)
    IN  IF rows # <<>> /\ rows[Len(rows)] = EmptyText
        THEN SubSeq(rows, 1, Len(rows) - 1) ELSE rows

\* sel is the top-left cell of the first selected range, NoIndex when nothing
\* is selected
paste_from_clipboard(s, text, sel) ==
    IF text = EmptyText THEN s
    ELSE LET rows == clipboard_rows(text)
             start_row == IF sel = NoIndex THEN 0 ELSE sel[1]
             start_col == IF sel = NoIndex THEN 0 ELSE sel[2]
             new_data == [i \in 1..Len(rows) |-> split(rows[i], TAB)]
             old_data == [i \in 1..Len(rows) |->
                            [j \in 1..Len(new_data[i]) |->
                                cellText(s, start_row + i - 1, start_col + j - 1)]]
             command == PasteCommand(start_row, start_col, old_data, new_data)
         IN  IF rows = <<>> THEN s
             ELSE push_command(Command_redo(command, s), command)

\* the user makes cell (r, c) current and commits an edit with the given
\* text: the table model writes the text into the cell's item, or into a new
\* item when the cell has none
edit_cell(s, r, c, text) == writeCell(setCurrentIndex(s, <<r, c>>), r, c, text)

(***************************************************************************)
(* The selection and the column selection order.                           *)
(***************************************************************************)
\* self.selectedItems(): the selected cells that hold an item, in the
\* selection model's order, the cells of hidden columns left out
selectedItems(s) ==
    LET Shown(x) == hasItem(s, x[1], x[2]) /\ x[2] \notin s.hidden
    IN  SelectSeq(s.selection, Shown)

isColumnSelected(s, column) ==
    \E k \in 1..Len(selectedItems(s)) : selectedItems(s)[k][2] = column

\* list.remove(x): the first occurrence of x goes
ListRemove(seq, x) ==
    LET k == CHOOSE k \in 1..Len(seq) :
                    seq[k] = x /\ \A m \in 1..(k - 1) : seq[m] # x
    IN  RemoveAt(seq, k)

\* mousePressEvent without "self.column_selection_order.remove(column)"
mousePressEvent_NoRemove(s, column) ==
    IF column < 0 THEN s
    ELSE IF ~isColumnSelected(s, column)
         THEN [s EXCEPT !.current_selection_start = column,
                        !.column_selection_order = <<column>>]
         ELSE [s EXCEPT !.current_selection_start = column,
                        !.column_selection_order = Append(s.column_selection_order, column)]

\* mousePressEvent with the left button on a cell of column, up to the call
\* of the base class
mousePressEvent(s, column) ==
    IF column < 0 THEN s
    ELSE IF ~isColumnSelected(s, column)
         THEN [s EXCEPT !.current_selection_start = column,
                        !.column_selection_order = <<column>>]
         ELSE LET order == s.column_selection_order
                  kept == IF \E k \in 1..Len(order) : order[k] = column
                          THEN ListRemove(order, column) ELSE order
              IN  [s EXCEPT !.current_selection_start = column,
                            !.column_selection_order = Append(kept, column)]

\* mouseReleaseEvent with the left button: the press was on start_column and
\* the release is on release_column
mouseReleaseEvent(s, start_column, release_column) ==
    IF start_column >= 0 /\ release_column >= 0 /\ start_column # release_column
    THEN LET first_col == IF start_column < release_column
                          THEN start_column ELSE release_column
             last_col == IF start_column < release_column
                         THEN release_column ELSE start_column
             Visible(col) == col \notin s.hidden
         IN  [s EXCEPT !.column_selection_order =
                SelectSeq([k \in 1..(last_col - first_col + 1) |-> first_col + k - 1],
                          Visible)]
    ELSE s

\* what the base class does with a click on cell (r, c): the cell becomes
\* the selection, or with Ctrl held on a cell that is not selected it joins
\* the selection as its last range; it becomes the current cell
select(s, r, c, ctrl) ==
    LET cell == <<r, c>>
        sel == IF ctrl THEN Append(s.selection, cell) ELSE <<cell>>
    IN  setCurrentIndex([s EXCEPT !.selection = sel], cell)

\* a click on cell (r, c): press and release at the same place
click(s, r, c, ctrl) ==
    mouseReleaseEvent(select(mousePressEvent(s, c), r, c, ctrl), c, c)

\* the cells of a rectangle, row by row, the hidden columns left out
selectVisibleCells(s, top_row, left_col, bottom_row, right_col) ==
    LET w == right_col - left_col + 1
        h == bottom_row - top_row + 1
        Visible(x) == x[2] \notin s.hidden
    IN  SelectSeq([k \in 1..(h * w) |->
                    <<top_row + ((k - 1) \div w), left_col + ((k - 1) % w)>>],
                  Visible)

\* a drag from cell (r1, c1) to cell (r2, c2): mousePressEvent,
\* mouseMoveEvent, mouseReleaseEvent
drag(s, r1, c1, r2, c2) ==
    LET pressed == select(mousePressEvent(s, c1), r1, c1, FALSE)
        top == IF r1 < r2 THEN r1 ELSE r2
        bottom == IF r1 < r2 THEN r2 ELSE r1
        left == IF c1 < c2 THEN c1 ELSE c2
        right == IF c1 < c2 THEN c2 ELSE c1
        moved == setCurrentIndex(
                    [pressed EXCEPT !.selection =
                        selectVisibleCells(pressed, top, left, bottom, right)],
                    <<r2, c2>>)
    IN  mouseReleaseEvent(moved, c1, c2)

\* keyPressEvent with Ctrl+A
select_all(s) ==
    [s EXCEPT
        !.selection = [k \in 1..(rowCount(s) * s.columnCount) |->
                        <<(k - 1) \div s.columnCount, (k - 1) % s.columnCount>>],
        !.column_selection_order = [k \in 1..s.columnCount |-> k - 1]]

\* self.selectColumn(column) of show_context_menu
selectColumn(s, column) ==
    [s EXCEPT !.selection = [k \in 1..rowCount(s) |-> <<k - 1, column>>]]

\* self.selectRow(row) of show_context_menu
selectRow(s, row) ==
    [s EXCEPT !.selection = selectVisibleCells(s, row, 0, row, s.columnCount - 1)]

\* get_selection_order without "col < self.columnCount()"
get_selection_order_NoRange(s) ==
    LET Valid(col) == col \notin s.hidden
    IN  SelectSeq(s.column_selection_order, Valid)

get_selection_order(s) ==
    LET Valid(col) == col < s.columnCount /\ col \notin s.hidden
    IN  SelectSeq(s.column_selection_order, Valid)

\* CSVViewer.update_column_display with self.visible_columns = visible
update_column_display(s, visible) ==
    [s EXCEPT !.hidden = (0..(s.columnCount - 1)) \ visible]

(***************************************************************************)
(* The difference of two columns.                                          *)
(***************************************************************************)
\* float(text) for the numbers of the model: a digit, with an optional sign
\* and an optional ".0"; any other text raises ValueError
Digits == {"0", "1", "2", "3", "4", "5", "6", "7", "8", "9"}

Unsigned(text) == IF text # <<>> /\ Head(text) = "-" THEN Tail(text) ELSE text

IsNumber(text) ==
    LET u == Unsigned(text)
    IN  /\ Len(u) \in {1, 3}
        /\ u[1] \in Digits
        /\ Len(u) = 3 => (u[2] = "." /\ u[3] = "0")

float(text) ==
    LET u == Unsigned(text)
        v == CHOOSE n \in 0..9 : ToString(n) = u[1]
    IN  IF u = text THEN v ELSE -v

\* str(f) for a float f of integral value
str(f) ==
    (IF f < 0 THEN <<"-">> ELSE <<>>) \o
    <<ToString(IF f < 0 THEN -f ELSE f), ".", "0">>

\* compute_diffs followed by the text add_diff_column writes for a result:
\* "" for None, str(diff) otherwise
compute_diffs(col1_values, col2_values) ==
    [i \in 1..Len(col1_values) |->
        IF IsNumber(col1_values[i]) /\ IsNumber(col2_values[i])
        THEN str(float(col1_values[i]) - float(col2_values[i]))
        ELSE EmptyText]

add_diff_column(s, col1, col2, header1_text, header2_text) ==
    LET current_col_count == s.columnCount
        diff_header == header1_text \o "-" \o header2_text \o "diff"
        t == setHorizontalHeaderItem(insertColumn(s, current_col_count),
                                     current_col_count, diff_header)
        col1_vals == [i \in 1..rowCount(s) |-> cellText(s, i - 1, col1)]
        col2_vals == [i \in 1..rowCount(s) |-> cellText(s, i - 1, col2)]
    IN  contentChanged_emit(
            setItems(t, compute_diffs(col1_vals, col2_vals), 1, 0, current_col_count, 1, 0))

\* the columns of the items from the k-th on, each where it comes first
RECURSIVE selected_columns(_, _)
selected_columns(items, k) ==
    IF k > Len(items) THEN <<>>
    ELSE (IF \E m \in 1..(k - 1) : items[m][2] = items[k][2]
          THEN <<>> ELSE <<items[k][2]>>) \o selected_columns(items, k + 1)

calculate_diff(s) ==
    LET cols == selected_columns(selectedItems(s), 1)
    IN  IF selectedItems(s) = <<>> \/ Len(cols) # 2 THEN s
        ELSE add_diff_column(s, cols[1], cols[2],
                             headerText(s, cols[1]), headerText(s, cols[2]))

(***************************************************************************)
(* Cut and the Delete key.                                                 *)
(***************************************************************************)
\* clear_items with item.setText("") made before push_command(command)
RECURSIVE clear_items_TextFirst(_, _, _, _)
clear_items_TextFirst(s, items, k, only_text) ==
    IF k > Len(items) THEN s
    ELSE LET row == items[k][1]
             col == items[k][2]
             text == cellText(s, row, col)
         IN  IF only_text /\ text = EmptyText
             THEN clear_items_TextFirst(s, items, k + 1, only_text)
             ELSE clear_items_TextFirst(
                    push_command(setText(s, row, col, EmptyText),
                                 CellChangeCommand(row, col, text, EmptyText)),
                    items, k + 1, only_text)

\* for item in selected_items: push a CellChangeCommand and item.setText(""),
\* from the k-th item on; only_text is the "if item.text()" of
\* delete_selected_items
RECURSIVE clear_items(_, _, _, _)
clear_items(s, items, k, only_text) ==
    IF k > Len(items) THEN s
    ELSE LET row == items[k][1]
             col == items[k][2]
             text == cellText(s, row, col)
         IN  IF only_text /\ text = EmptyText
             THEN clear_items(s, items, k + 1, only_text)
             ELSE clear_items(
                    setText(push_command(s, CellChangeCommand(row, col, text, EmptyText)),
                            row, col, EmptyText),
                    items, k + 1, only_text)

\* copy_selection fills the clipboard and changes nothing of the table
cut_selection(s) == clear_items(s, selectedItems(s), 1, FALSE)

delete_selected_items(s) == clear_items(s, selectedItems(s), 1, TRUE)

(***************************************************************************)
(* Loading the file into the table.                                        *)
(***************************************************************************)
\* the string a text of characters stands for
RECURSIVE Joined(_)
Joined(text) == IF text = <<>> THEN "" ELSE Head(text) \o Joined(Tail(text))

\* the loop of load_csv that fills the table, from the i-th row of data on
RECURSIVE fill_rows(_, _, _)
fill_rows(s, data, i) ==
    IF i > Len(data) THEN s
    ELSE fill_rows(setItems(s, data[i], 1, i - 1, 0, 0, 1), data, i + 1)

\* table.setHorizontalHeaderLabels(labels), from the k-th label on
RECURSIVE setHorizontalHeaderLabels(_, _, _)
setHorizontalHeaderLabels(s, labels, k) ==
    IF k > Len(labels) THEN s
    ELSE setHorizontalHeaderLabels(setHorizontalHeaderItem(s, k - 1, labels[k]),
                                   labels, k + 1)

\* CSVViewer.load_csv on the table s, data being the rows csv.reader gives;
\* an empty file leaves the table as it is
load_csv(s, data) ==
    IF data = <<>> THEN s
    ELSE LET sized == setColumnCount(setRowCount(s, Len(data)), Len(data[1]))
             filled == fill_rows(sized, data, 1)
             header_labels ==
                [j \in 1..filled.columnCount |->
                    IF hasItem(filled, 0, j - 1)
                    THEN Joined(cellText(filled, 0, j - 1))
                    ELSE "lie" \o ToString(j)]
         IN  IF rowCount(filled) > 0 /\ filled.columnCount > 0
             THEN removeRow(setHorizontalHeaderLabels(filled, header_labels, 1), 0)
             ELSE filled

(***************************************************************************)
(* Inputs of the model.                                                    *)
(***************************************************************************)
\* the rows of the file the viewer shows: a header line and two lines of
\* data, the last line short by one cell in the second file
Files ==
    { << << <<"h", "1">>, <<"h", "2">> >>, << <<"a">>, <<"b">> >>, << <<"c">>, EmptyText >> >>,
      << << <<"h", "1">>, <<"h", "2">> >>, << <<"a">>, <<"b">> >>, << <<"c">> >> >> }

\* the texts a user types into a cell
EditTexts == {EmptyText, <<"x">>}

\* the clipboard texts that are pasted: two cells of one row, two rows, one
\* cell with a trailing newline
ClipTexts ==
    { <<"p", TAB, "q">>,
      <<"p", NL, "q">>,
      <<"p", NL>> }

\* the clipboard texts of the paste runs: no text, a lone newline, a 3 x 3
\* block, a block with a trailing newline, and two blocks of ragged rows
PasteTexts ==
    { EmptyText,
      <<NL>>,
      <<"p", TAB, "q", TAB, "r", NL, "s", TAB, "t", TAB, "u", NL, "v", TAB, "w", TAB, "z">>,
      <<"p", TAB, "q", NL>>,
      <<"p", TAB, "q", NL, "r">>,
      <<"p", NL, "q", TAB, "r">> }

Item(text) == [item |-> TRUE, text |-> text, cur |-> FALSE]

\* the tables load_csv leaves: every header section holds an item; a cell
\* holds an item unless its row of the file was short
InitGrids ==
    { << <<Item(<<"a">>), Item(<<"b">>)>>, <<Item(<<"c">>), Item(EmptyText)>> >>,
      << <<Item(<<"a">>), Item(<<"b">>)>>, <<Item(<<"c">>), NoItem>> >> }

(***************************************************************************)
(* The table after load_csv has filled it: no cell is current, both stacks *)
(* are empty.                                                              *)
(***************************************************************************)
InitWith(grids) ==
    /\ grid \in grids
    /\ columnCount = 2
    /\ header = << [item |-> TRUE, text |-> "h1"], [item |-> TRUE, text |-> "h2"] >>
    /\ currentIndex = NoIndex
    /\ current_text = EmptyText
    /\ undo_stack = <<>>
    /\ redo_stack = <<>>
    /\ selection = <<>>
    /\ column_selection_order = <<>>
    /\ hidden = {}
    /\ current_selection_start = -1
    /\ modified = FALSE
    /\ npush = 0
    /\ emitted = 0
    /\ pushes = <<>>
    /\ recordings = <<>>
    /\ nops = 0
    /\ last = [op |-> "init", row |-> -1, col |-> -1, text |-> EmptyText]
    /\ prev = State

InitTable == InitWith(InitGrids)

\* one operation: the table becomes t, and the operation and the table
\* before it are remembered
Step(t, op, row, col, text) ==
    /\ grid' = t.grid
    /\ columnCount' = t.columnCount
    /\ header' = t.header
    /\ currentIndex' = t.currentIndex
    /\ current_text' = t.current_text
    /\ undo_stack' = t.undo_stack
    /\ redo_stack' = t.redo_stack
    /\ selection' = t.selection
    /\ column_selection_order' = t.column_selection_order
    /\ hidden' = t.hidden
    /\ current_selection_start' = t.current_selection_start
    /\ modified' = t.modified
    /\ npush' = t.npush
    /\ emitted' = t.emitted
    /\ pushes' = t.pushes
    /\ recordings' = t.recordings
    /\ nops' = nops + 1
    /\ last' = [op |-> op, row |-> row, col |-> col, text |-> text]
    /\ prev' = State

Rows == 0..(Len(grid) - 1)
Cols == 0..(columnCount - 1)

\* the places a selection starts at: nothing selected, the current cell, the
\* bottom right cell
PasteStarts ==
    {NoIndex, currentIndex} \cup
    (IF Len(grid) > 0 /\ columnCount > 0
     THEN {<<Len(grid) - 1, columnCount - 1>>} ELSE {})

\* the user clicks cell (r, c)
SetCurrent ==
    \E r \in Rows, c \in Cols :
        /\ <<r, c>> # currentIndex
        /\ Step(setCurrentIndex(State, <<r, c>>), "current", r, c, EmptyText)

\* the user edits cell (r, c), typing one of texts
EditCell(texts) ==
    \E r \in Rows, c \in Cols, text \in texts :
        Step(edit_cell(State, r, c, text), "edit", r, c, text)

InsertRowAt ==
    /\ Len(grid) < MaxRows
    /\ \E row \in -1..(Len(grid) - 1) :
        Step(insert_row_at(State, row), "insert_row", row, -1, EmptyText)

InsertColumnAt ==
    /\ columnCount < MaxCols
    /\ \E col \in -1..(columnCount - 1) :
        Step(insert_column_at(State, col), "insert_column", -1, col, EmptyText)

DeleteRowAt ==
    \E row \in Rows :
        Step(delete_row_at(State, row), "delete_row", row, -1, EmptyText)

DeleteColumnAt ==
    \E col \in Cols :
        Step(delete_column_at(State, col), "delete_column", -1, col, EmptyText)

\* Ctrl+V with the clipboard holding one of texts and the selection starting
\* at one of starts
Paste(texts, starts) ==
    \E text \in texts, sel \in starts :
        LET t == paste_from_clipboard(State, text, sel)
        IN  /\ rowCount(t) <= MaxRows
            /\ t.columnCount <= MaxCols
            /\ Step(t, "paste", sel[1], sel[2], text)

Undo == Step(undo(State), "undo", -1, -1, EmptyText)

Redo == Step(redo(State), "redo", -1, -1, EmptyText)

MutOps ==
    {"edit", "insert_row", "insert_column", "delete_row", "delete_column", "paste",
     "cut", "delete_key"}

(***************************************************************************)
(* Spec: the operations in any order, MaxOps of them.                      *)
(***************************************************************************)
NoPhase == [name |-> "free", undos |-> 0, redos |-> 0]

Init ==
    /\ InitTable
    /\ phase = NoPhase
    /\ mark = <<>>

\* an operation of a run that follows no script
Free(A) == nops < MaxOps /\ A /\ UNCHANGED <<phase, mark>>

Next ==
    \/ Free(SetCurrent)
    \/ Free(EditCell(EditTexts))
    \/ Free(InsertRowAt)
    \/ Free(InsertColumnAt)
    \/ Free(DeleteRowAt)
    \/ Free(DeleteColumnAt)
    \/ Free(Paste(ClipTexts, PasteStarts))
    \/ Free(Undo)
    \/ Free(Redo)

Spec == Init /\ [][Next]_vars

(***************************************************************************)
(* SpecRoundTrip: a scripted run.  Up to max_history + 1 mutations, then   *)
(* undo() up to as many times, then redo() up to as many times as undo()   *)
(* was called.  mark[1] is the table at the start and mark[k + 1] the k-th *)
(* mutation with the table it left.                                        *)
(***************************************************************************)
MarkOf(op, s) == [op |-> op.op, row |-> op.row, col |-> op.col, texts |-> TextsOf(s)]

InitRoundTrip ==
    /\ InitTable
    /\ phase = [name |-> "forward", undos |-> 0, redos |-> 0]
    /\ mark = <<MarkOf(last, State)>>

\* one more mutation of the forward part
Forward(A) ==
    /\ phase.name = "forward"
    /\ Len(mark) - 1 < max_history + 1
    /\ A
    /\ mark' = Append(mark, MarkOf(last', State'))
    /\ UNCHANGED phase

UndoAll ==
    /\ phase.name \in {"forward", "undo"}
    /\ phase.undos < Len(mark) - 1
    /\ Undo
    /\ phase' = [name |-> "undo", undos |-> phase.undos + 1, redos |-> 0]
    /\ UNCHANGED mark

RedoAll ==
    /\ phase.name \in {"undo", "redo"}
    /\ phase.redos < phase.undos
    /\ Redo
    /\ phase' = [phase EXCEPT !.name = "redo", !.redos = phase.redos + 1]
    /\ UNCHANGED mark

NextRoundTrip ==
    \/ Forward(EditCell(EditTexts))
    \/ Forward(InsertRowAt)
    \/ Forward(InsertColumnAt)
    \/ Forward(DeleteRowAt)
    \/ Forward(DeleteColumnAt)
    \/ Forward(Paste(ClipTexts, PasteStarts))
    \/ UndoAll
    \/ RedoAll

SpecRoundTrip == InitRoundTrip /\ [][NextRoundTrip]_vars

(***************************************************************************)
(* SpecPaste: clicks, edits, pastes of PasteTexts, undo() and redo().      *)
(***************************************************************************)
NextPaste ==
    \/ Free(SetCurrent)
    \/ Free(EditCell({<<"x">>}))
    \/ Free(Paste(PasteTexts, PasteStarts))
    \/ Free(Undo)
    \/ Free(Redo)

SpecPaste == Init /\ [][NextPaste]_vars

(***************************************************************************)
(* SpecSelect: the mouse and the keyboard on a table of numbers.  Cells    *)
(* are clicked and dragged over, everything is selected, columns are       *)
(* hidden, the header menus insert and delete, the current cell is edited, *)
(* the selection is cut, cleared and pasted over, two columns are          *)
(* subtracted.                                                             *)
(***************************************************************************)
SelectGrids ==
    { << <<Item(<<"3">>), Item(<<"1">>)>>, <<Item(<<"2">>), Item(EmptyText)>> >>,
      << <<Item(<<"3">>), Item(<<"1">>)>>, <<Item(<<"2">>), NoItem>> >> }

InitSelect ==
    /\ InitWith(SelectGrids)
    /\ phase = NoPhase
    /\ mark = <<>>

\* the columns a pointer can be on
Shown == Cols \ hidden

\* a click on a cell, or a click with Ctrl held on a cell that is not selected
Click ==
    \E r \in Rows, c \in Shown, ctrl \in BOOLEAN :
        /\ ctrl => \A k \in 1..Len(selection) : selection[k] # <<r, c>>
        /\ Step(click(State, r, c, ctrl), IF ctrl THEN "ctrl_click" ELSE "click",
                r, c, EmptyText)

Drag ==
    \E r1 \in Rows, r2 \in Rows, c1 \in Shown, c2 \in Shown :
        /\ c1 # c2
        /\ Step(drag(State, r1, c1, r2, c2), "drag", r2, c2, EmptyText)

SelectAll == Step(select_all(State), "select_all", -1, -1, EmptyText)

\* the column dialog leaves all columns or all but one on display
SetVisible ==
    \E visible \in {Cols} \cup {Cols \ {c} : c \in Cols} :
        /\ visible # {}
        /\ Cols \ visible # hidden
        /\ Step(update_column_display(State, visible), "set_visible", -1, -1, EmptyText)

\* the user edits the current cell
EditCurrent(texts) ==
    /\ currentIndex # NoIndex
    /\ \E text \in texts :
        Step(edit_cell(State, currentIndex[1], currentIndex[2], text),
             "edit", currentIndex[1], currentIndex[2], text)

\* the menu of the vertical header on row
HeaderInsertRow ==
    /\ Len(grid) < MaxRows
    /\ \E row \in Rows :
        Step(insert_row_at(selectRow(State, row), row), "insert_row", row, -1, EmptyText)

HeaderDeleteRow ==
    \E row \in Rows :
        Step(delete_row_at(selectRow(State, row), row), "delete_row", row, -1, EmptyText)

\* the menu of the horizontal header on column col
HeaderInsertColumn ==
    /\ columnCount < MaxCols
    /\ \E col \in Shown :
        Step(insert_column_at(selectColumn(State, col), col),
             "insert_column", -1, col, EmptyText)

HeaderDeleteColumn ==
    \E col \in Shown :
        Step(delete_column_at(selectColumn(State, col), col),
             "delete_column", -1, col, EmptyText)

\* the top left cell of the first selected range
SelectionStart == IF selection = <<>> THEN NoIndex ELSE selection[1]

Cut == Step(cut_selection(State), "cut", -1, -1, EmptyText)

DeleteKey == Step(delete_selected_items(State), "delete_key", -1, -1, EmptyText)

CalculateDiff ==
    /\ columnCount < MaxCols
    /\ Step(calculate_diff(State), "calculate_diff", -1, -1, EmptyText)

\* an operation of a run on the table of numbers
Sel(A) == nops < MaxSelectOps /\ A /\ UNCHANGED <<phase, mark>>

NextSelect ==
    \/ Sel(Click)
    \/ Sel(Drag)
    \/ Sel(SelectAll)
    \/ Sel(SetVisible)
    \/ Sel(EditCurrent({EmptyText, <<"1">>}))
    \/ Sel(HeaderInsertRow)
    \/ Sel(HeaderDeleteRow)
    \/ Sel(HeaderInsertColumn)
    \/ Sel(HeaderDeleteColumn)
    \/ Sel(Paste({<<"1", TAB, "2">>, <<"0", NL>>}, {SelectionStart}))
    \/ Sel(Cut)
    \/ Sel(DeleteKey)
    \/ Sel(CalculateDiff)
    \/ Sel(Undo)
    \/ Sel(Redo)

SpecSelect == InitSelect /\ [][NextSelect]_vars

(***************************************************************************)
(* SpecReload: the table with the viewer's reload.  Cells are clicked,     *)
(* dragged over and edited, rows are inserted, columns are deleted, and    *)
(* change_encoding loads the file again into the same table.               *)
(***************************************************************************)
\* change_encoding: load_csv(self.file_path) on the table that is shown
Reload ==
    \E data \in Files :
        Step(load_csv(State, data), "reload", -1, -1, EmptyText)

NextReload ==
    \/ Free(Click)
    \/ Free(Drag)
    \/ Free(EditCell(EditTexts))
    \/ Free(InsertRowAt)
    \/ Free(DeleteColumnAt)
    \/ Free(Reload)
    \/ Free(Undo)
    \/ Free(Redo)

SpecReload == Init /\ [][NextReload]_vars

(***************************************************************************)
(* SpecInvalid: the structural operations, called with indices inside and  *)
(* outside the table.  The cell menu passes currentRow() and               *)
(* currentColumn(), which are -1 when no cell is current.                  *)
(***************************************************************************)
\* the indices delete_row_at and delete_column_at refuse, n being the count
OutsideOf(n) == {-2, -1, n, n + 1}

\* the indices insert_row_at and insert_column_at refuse
BelowMinusOne == {-3, -2}

DeleteRowOutside ==
    \E row \in OutsideOf(Len(grid)) :
        Step(delete_row_at(State, row), "delete_row_outside", row, -1, EmptyText)

DeleteColumnOutside ==
    \E col \in OutsideOf(columnCount) :
        Step(delete_column_at(State, col), "delete_column_outside", -1, col, EmptyText)

InsertRowOutside ==
    \E row \in BelowMinusOne :
        Step(insert_row_at(State, row), "insert_row_outside", row, -1, EmptyText)

InsertColumnOutside ==
    \E col \in BelowMinusOne :
        Step(insert_column_at(State, col), "insert_column_outside", -1, col, EmptyText)

OutsideOps ==
    {"delete_row_outside", "delete_column_outside",
     "insert_row_outside", "insert_column_outside"}

NextInvalid ==
    \/ Free(EditCell(EditTexts))
    \/ Free(InsertRowAt)
    \/ Free(InsertColumnAt)
    \/ Free(DeleteRowAt)
    \/ Free(DeleteColumnAt)
    \/ Free(DeleteRowOutside)
    \/ Free(DeleteColumnOutside)
    \/ Free(InsertRowOutside)
    \/ Free(InsertColumnOutside)
    \/ Free(Undo)
    \/ Free(Redo)

SpecInvalid == Init /\ [][NextInvalid]_vars

(***************************************************************************)
(* Properties.                                                             *)
(***************************************************************************)
top(stack) == stack[Len(stack)]

front(stack) == SubSeq(stack, 1, Len(stack) - 1)

\* the operation performed last recorded a command
Recorded == last.op \in MutOps /\ npush > prev.npush

\* nothing a caller can read differs between s and t
Same(s, t) ==
    /\ TextsOf(s) = TextsOf(t)
    /\ HeadersOf(s) = HeadersOf(t)
    /\ s.undo_stack = t.undo_stack
    /\ s.redo_stack = t.redo_stack

\* the texts of the rows by cols block that starts at (r, c)
Block(s, r, c, rows, cols) ==
    [i \in 1..rows |-> [j \in 1..cols[i] |-> cellText(s, r + i - 1, c + j - 1)]]

\* every operation of the forward part changed a text or a count
AllChanged == \A k \in 2..Len(mark) : mark[k].texts # mark[k - 1].texts

\* C1: N <= max_history mutations, then N times undo(), then N times redo()
\* leave every cell, the row count and the column count as they were right
\* after the N mutations
C1_RoundTrip ==
    (/\ phase.name = "redo"
     /\ phase.undos = Len(mark) - 1
     /\ phase.redos = phase.undos
     /\ Len(mark) - 1 <= max_history
     /\ AllChanged)
        => TextsOf(State) = mark[Len(mark)].texts

\* u is table s after undo() of cmd, the command on top of the undo stack of
\* s: the cells cmd touched read what cmd holds as their old text, and an
\* inserted row or column is gone again
UndoRestores(cmd, s, u) ==
    CASE cmd.kind = "CellChange" -> cellText(u, cmd.row, cmd.col) = cmd.old_text
      [] cmd.kind = "Paste" ->
            Block(u, cmd.start_row, cmd.start_col, Len(cmd.old_data),
                  [i \in 1..Len(cmd.old_data) |-> Len(cmd.old_data[i])]) = cmd.old_data
      [] cmd.kind = "DeleteRow" ->
            /\ rowCount(u) = rowCount(s) + 1
            /\ \A j \in 1..Len(cmd.row_data) : cellText(u, cmd.row, j - 1) = cmd.row_data[j]
      [] cmd.kind = "DeleteColumn" ->
            /\ u.columnCount = s.columnCount + 1
            /\ \A i \in 1..Len(cmd.col_data) : cellText(u, i - 1, cmd.col) = cmd.col_data[i]
      [] cmd.kind = "InsertRow" ->
            TextsOf(u).text = RemoveAt(TextsOf(s).text, cmd.row + 1)
      [] cmd.kind = "InsertColumn" ->
            TextsOf(u).text =
                [i \in 1..rowCount(s) |-> RemoveAt(TextsOf(s).text[i], cmd.col + 1)]

\* cmd was recorded by an operation on table p that left table s: what cmd
\* holds as old text is the text the cells had in p, and an inserted row or
\* column is the only difference between p and s
RecordedBefore(cmd, p, s) ==
    CASE cmd.kind = "CellChange" -> cmd.old_text = cellText(p, cmd.row, cmd.col)
      [] cmd.kind = "Paste" ->
            cmd.old_data = Block(p, cmd.start_row, cmd.start_col, Len(cmd.new_data),
                                 [i \in 1..Len(cmd.new_data) |-> Len(cmd.new_data[i])])
      [] cmd.kind = "DeleteRow" ->
            cmd.row_data = [j \in 1..p.columnCount |-> cellText(p, cmd.row, j - 1)]
      [] cmd.kind = "DeleteColumn" ->
            cmd.col_data = [i \in 1..rowCount(p) |-> cellText(p, i - 1, cmd.col)]
      [] cmd.kind = "InsertRow" ->
            TextsOf(p).text = RemoveAt(TextsOf(s).text, cmd.row + 1)
      [] cmd.kind = "InsertColumn" ->
            TextsOf(p).text =
                [i \in 1..rowCount(s) |-> RemoveAt(TextsOf(s).text[i], cmd.col + 1)]

\* C2: undo() of the command on top of the undo stack makes every cell the
\* command touched read the text it had just before the command was applied:
\* a command holds as old text what the cells read when it was recorded, and
\* undo() of it makes the cells read that text; after undo() of a cell edit
\* the following redo() makes the cell read the new text again
C2_UndoRestoresTouchedCells ==
    /\ Recorded => RecordedBefore(top(undo_stack), prev, State)
    /\ undo_stack # <<>> => UndoRestores(top(undo_stack), State, undo(State))
    /\ (last.op = "undo" /\ prev.undo_stack # <<>>
            /\ top(prev.undo_stack).kind = "CellChange")
        => LET cmd == top(prev.undo_stack)
           IN  /\ cellText(State, cmd.row, cmd.col) = cmd.old_text
               /\ cellText(redo(State), cmd.row, cmd.col) = cmd.new_text

\* an empty cell was edited to "x" and undo() was called: the cell reads the
\* empty text, and "x" after redo()
C2_Witness ==
    /\ last.op = "undo"
    /\ prev.undo_stack # <<>>
    /\ top(prev.undo_stack) = CellChangeCommand(1, 1, EmptyText, <<"x">>)
    /\ cellText(prev, 1, 1) = <<"x">>
    /\ cellText(State, 1, 1) = EmptyText
    /\ cellText(redo(State), 1, 1) = <<"x">>

\* C3: a mutation that records a command leaves the redo stack empty, so a
\* redo() right after it changes neither the grid nor the stacks
C3_RedoInvalidated ==
    Recorded => (redo_stack = <<>> /\ Same(redo(State), State))

\* a command was recorded while the redo stack held an undone command
C3_Witness ==
    /\ Recorded
    /\ prev.redo_stack # <<>>
    /\ redo_stack = <<>>
    /\ Same(redo(State), State)

\* C4: neither stack ever holds more than max_history commands, and a push
\* onto a full undo stack removes the oldest entry
C4_Capacity ==
    /\ Len(undo_stack) <= max_history
    /\ Len(redo_stack) <= max_history
    /\ (Recorded /\ npush = prev.npush + 1 /\ Len(prev.undo_stack) = max_history)
        => (/\ Len(undo_stack) = max_history
            /\ front(undo_stack) = Tail(prev.undo_stack))

\* a command was pushed onto a full undo stack of distinct commands and the
\* oldest one went
C4_Witness ==
    /\ Recorded
    /\ npush = prev.npush + 1
    /\ Len(prev.undo_stack) = max_history
    /\ prev.undo_stack[1] # prev.undo_stack[max_history]
    /\ top(undo_stack) # top(prev.undo_stack)
    /\ front(undo_stack) = Tail(prev.undo_stack)

\* the forward part of the scripted run is M edits that each change the
\* text of a cell no earlier edit touched
DistinctEdits ==
    \A k \in 2..Len(mark) :
        /\ mark[k].op = "edit"
        /\ mark[k].texts # mark[k - 1].texts
        /\ \A m \in 2..(k - 1) : <<mark[m].row, mark[m].col>> # <<mark[k].row, mark[k].col>>

\* C5: after M > max_history distinct cell edits, k times undo() reverts the
\* last k edits for k <= max_history, and nothing more for k > max_history:
\* every further undo() is a no-op
C5_CapacityBoundary ==
    (/\ phase.name = "undo"
     /\ Len(mark) - 1 > max_history
     /\ DistinctEdits)
        => /\ TextsOf(State) =
                mark[Len(mark) - (IF phase.undos <= max_history
                                  THEN phase.undos ELSE max_history)].texts
           /\ phase.undos > max_history => Same(State, prev)

\* the indices command.undo(table) uses are inside table s
UndoInBounds(cmd, s) ==
    CASE cmd.kind = "CellChange" -> InRange(s, cmd.row, cmd.col)
      [] cmd.kind = "InsertRow" -> cmd.row >= 0 /\ cmd.row < rowCount(s)
      [] cmd.kind = "InsertColumn" -> cmd.col >= 0 /\ cmd.col < s.columnCount
      [] cmd.kind = "DeleteRow" ->
            cmd.row >= 0 /\ cmd.row <= rowCount(s) /\ Len(cmd.row_data) <= s.columnCount
      [] cmd.kind = "DeleteColumn" ->
            cmd.col >= 0 /\ cmd.col <= s.columnCount /\ Len(cmd.col_data) <= rowCount(s)
      [] cmd.kind = "Paste" ->
            \A i \in 1..Len(cmd.old_data) : \A j \in 1..Len(cmd.old_data[i]) :
                InRange(s, cmd.start_row + i - 1, cmd.start_col + j - 1)

\* the indices command.redo(table) uses are inside table s
RedoInBounds(cmd, s) ==
    CASE cmd.kind = "CellChange" -> InRange(s, cmd.row, cmd.col)
      [] cmd.kind = "InsertRow" -> cmd.row >= 0 /\ cmd.row <= rowCount(s)
      [] cmd.kind = "InsertColumn" -> cmd.col >= 0 /\ cmd.col <= s.columnCount
      [] cmd.kind = "DeleteRow" -> cmd.row >= 0 /\ cmd.row < rowCount(s)
      [] cmd.kind = "DeleteColumn" -> cmd.col >= 0 /\ cmd.col < s.columnCount
      [] cmd.kind = "Paste" -> cmd.start_row >= 0 /\ cmd.start_col >= 0

C7_DeleteRowUndo ==
    last.op = "delete_row"
        => /\ TextsOf(State).text = RemoveAt(TextsOf(prev).text, last.row + 1)
           /\ TextsOf(undo(State)) = TextsOf(prev)

\* row 0 of texts "a", "b" was deleted, row 1 moved up, and undo() brings
\* "a" back to row 0
C7_Witness ==
    /\ last.op = "delete_row"
    /\ last.row = 0
    /\ rowCount(prev) >= 2
    /\ cellText(prev, 0, 0) = <<"a">>
    /\ cellText(State, 0, 0) = cellText(prev, 1, 0)
    /\ cellText(State, 0, 0) # <<"a">>
    /\ TextsOf(undo(State)) = TextsOf(prev)

\* C8: delete_column_at(c) followed by undo() gives back column c with the
\* texts of its cells and its header text, also when the column had no
\* header item
C8_DeleteColumnUndo ==
    last.op = "delete_column"
        => LET u == undo(State)
           IN  /\ TextsOf(u) = TextsOf(prev)
               /\ HeadersOf(u) = HeadersOf(prev)

\* a column without a header item was deleted and undo() gives it back
C8_Witness ==
    /\ last.op = "delete_column"
    /\ ~prev.header[last.col + 1].item
    /\ prev.columnCount = columnCount + 1
    /\ headerText(undo(State), last.col) = headerText(prev, last.col)
    /\ TextsOf(undo(State)) = TextsOf(prev)

\* C9: undo() on an empty undo stack changes nothing; otherwise it moves
\* the top command of the undo stack to the redo stack and changes the
\* stacks in no other way
C9_UndoStackEffect ==
    last.op = "undo"
        => IF prev.undo_stack = <<>>
           THEN Same(State, prev)
           ELSE /\ undo_stack = front(prev.undo_stack)
                /\ redo_stack = Append(prev.redo_stack, top(prev.undo_stack))
                /\ TextsOf(State) =
                     TextsOf(Command_undo(top(prev.undo_stack), prev))

\* C10: redo() on an empty redo stack changes nothing; otherwise it moves
\* the top command of the redo stack to the undo stack, the other redo
\* entries staying in place
C10_RedoStackEffect ==
    last.op = "redo"
        => IF prev.redo_stack = <<>>
           THEN Same(State, prev)
           ELSE /\ redo_stack = front(prev.redo_stack)
                /\ undo_stack = Append(prev.undo_stack, top(prev.redo_stack))
                /\ TextsOf(State) =
                     TextsOf(Command_redo(top(prev.redo_stack), prev))

(***************************************************************************)
(* Paste.                                                                  *)
(***************************************************************************)
\* the cell the paste performed last started at: the top left cell of the
\* selection, (0, 0) without a selection
PasteRow == IF last.row < 0 THEN 0 ELSE last.row

PasteCol == IF last.col < 0 THEN 0 ELSE last.col

\* the cells a clipboard text stands for, written out by hand: rows end at a
\* newline, cells at a tab, one trailing empty line is dropped
ExpectedCells(text) ==
    CASE text = EmptyText -> <<>>
      [] text = <<NL>> -> << <<EmptyText>> >>
      [] text = <<"p", TAB, "q">> -> << << <<"p">>, <<"q">> >> >>
      [] text = <<"p", NL, "q">> -> << << <<"p">> >>, << <<"q">> >> >>
      [] text = <<"p", NL>> -> << << <<"p">> >> >>
      [] text = <<"p", TAB, "q", NL>> -> << << <<"p">>, <<"q">> >> >>
      [] text = <<"p", TAB, "q", NL, "r">> -> << << <<"p">>, <<"q">> >>, << <<"r">> >> >>
      [] text = <<"p", NL, "q", TAB, "r">> -> << << <<"p">> >>, << <<"q">>, <<"r">> >> >>
      [] text = <<"p", TAB, "q", TAB, "r", NL, "s", TAB, "t", TAB, "u", NL,
                  "v", TAB, "w", TAB, "z">> ->
            << << <<"p">>, <<"q">>, <<"r">> >>,
               << <<"s">>, <<"t">>, <<"u">> >>,
               << <<"v">>, <<"w">>, <<"z">> >> >>

\* the number of cells of the longest row of a block
Width(block) ==
    IF block = <<>> THEN 0
    ELSE CHOOSE w \in {Len(block[i]) : i \in 1..Len(block)} :
            \A i \in 1..Len(block) : Len(block[i]) <= w

\* C11: undo() of a paste changes neither rowCount nor columnCount, and
\* undo() right after a paste gives every cell that existed before the paste
\* the text it had, the counts keeping the values the paste left
C11_PasteGrowthAsymmetry ==
    /\ (undo_stack # <<>> /\ top(undo_stack).kind = "Paste")
        => /\ rowCount(undo(State)) = rowCount(State)
           /\ undo(State).columnCount = columnCount
    /\ (last.op = "paste" /\ Recorded)
        => LET u == undo(State)
           IN  /\ rowCount(State) >= rowCount(prev)
               /\ columnCount >= prev.columnCount
               /\ \A r \in 0..(rowCount(prev) - 1), c \in 0..(prev.columnCount - 1) :
                    cellText(u, r, c) = cellText(prev, r, c)

\* the 3 x 3 block was pasted at (0, 0) of the 2 x 2 table: the counts are 3
\* and stay 3 after undo(), which brings back "a" at (0, 0)
C11_Witness ==
    /\ last.op = "paste"
    /\ rowCount(prev) = 2 /\ prev.columnCount = 2
    /\ rowCount(State) = 3 /\ columnCount = 3
    /\ cellText(prev, 0, 0) = <<"a">>
    /\ cellText(State, 0, 0) = <<"p">>
    /\ cellText(State, 2, 2) = <<"z">>
    /\ rowCount(undo(State)) = 3 /\ undo(State).columnCount = 3
    /\ cellText(undo(State), 0, 0) = <<"a">>

\* C12: after a paste every cell of the parsed text reads its text at its
\* place from the start cell on, inside the table, which never shrinks, and
\* the command recorded holds the parsed cells; a text of no rows changes
\* nothing and records nothing
C12_PasteWritesParsedCells ==
    last.op = "paste"
        => LET block == ExpectedCells(last.text)
           IN  IF block = <<>>
               THEN Same(State, prev) /\ npush = prev.npush
               ELSE /\ \A i \in 1..Len(block) : \A j \in 1..Len(block[i]) :
                        /\ InRange(State, PasteRow + i - 1, PasteCol + j - 1)
                        /\ cellText(State, PasteRow + i - 1, PasteCol + j - 1) = block[i][j]
                    /\ rowCount(State) >= rowCount(prev)
                    /\ columnCount >= prev.columnCount
                    /\ Recorded
                    /\ top(undo_stack).kind = "Paste"
                    /\ top(undo_stack).new_data = block

\* "p<TAB>q<NL>" was pasted at the bottom right cell: the trailing newline
\* made no row, and the table grew by one column for "q"
C12_Witness ==
    /\ last.op = "paste"
    /\ last.text = <<"p", TAB, "q", NL>>
    /\ PasteRow = rowCount(prev) - 1
    /\ PasteCol = prev.columnCount - 1
    /\ rowCount(State) = rowCount(prev)
    /\ columnCount = prev.columnCount + 1
    /\ cellText(State, PasteRow, PasteCol) = <<"p">>
    /\ cellText(State, PasteRow, PasteCol + 1) = <<"q">>

\* C13: a paste, undo() after it and redo() after that leave the text of
\* every cell that existed before the paste and lies outside the rectangle
\* of the parsed block as it was
C13_PasteFrame ==
    (last.op = "paste" /\ Recorded)
        => LET block == ExpectedCells(last.text)
               u == undo(State)
               v == redo(u)
               Outside(r, c) ==
                    \/ r < PasteRow \/ r >= PasteRow + Len(block)
                    \/ c < PasteCol \/ c >= PasteCol + Width(block)
           IN  \A r \in 0..(rowCount(prev) - 1), c \in 0..(prev.columnCount - 1) :
                    Outside(r, c) =>
                        /\ cellText(State, r, c) = cellText(prev, r, c)
                        /\ cellText(u, r, c) = cellText(prev, r, c)
                        /\ cellText(v, r, c) = cellText(prev, r, c)

\* a block was pasted at column 1 and changed a text there, while "a" at
\* (0, 0), outside the rectangle, stayed through the paste, undo() and redo()
C13_Witness ==
    /\ last.op = "paste"
    /\ Recorded
    /\ PasteCol = 1
    /\ TextsOf(State) # TextsOf(prev)
    /\ TextsOf(undo(State)).text # TextsOf(State).text
    /\ cellText(prev, 0, 0) = <<"a">>
    /\ cellText(State, 0, 0) = <<"a">>
    /\ cellText(undo(State), 0, 0) = <<"a">>
    /\ cellText(redo(undo(State)), 0, 0) = <<"a">>

\* the rows of a block differ in length
Ragged(block) == \E i, k \in 1..Len(block) : Len(block[i]) # Len(block[k])


\* the undo stack after one push of command onto stack
Pushed(stack, command) ==
    IF Len(stack) = max_history THEN Append(Tail(stack), command)
    ELSE Append(stack, command)

\* C14: a paste of ragged rows is applied and recorded as one command, each
\* row cell by cell: every cell a row has reads its text afterwards, a
\* shorter row having no text for the cells it lacks, and the undo stack
\* got the paste command and no other
C14_RaggedPaste ==
    (last.op = "paste" /\ Ragged(ExpectedCells(last.text)))
        => LET block == ExpectedCells(last.text)
           IN  /\ \A i \in 1..Len(block) : \A j \in 1..Len(block[i]) :
                    cellText(State, PasteRow + i - 1, PasteCol + j - 1) = block[i][j]
               /\ npush = prev.npush + 1
               /\ undo_stack = Pushed(prev.undo_stack, top(undo_stack))
               /\ top(undo_stack).kind = "Paste"

\* C15: insert_row_at(r) adds one row of empty cells at r + 1, the rows up
\* to r staying and the rows below moving down by one, and records one
\* InsertRow command of index r + 1; insert_column_at(c) does the same for
\* columns
C15_InsertBelowAndRight ==
    /\ last.op = "insert_row"
        => /\ rowCount(State) = rowCount(prev) + 1
           /\ columnCount = prev.columnCount
           /\ TextsOf(State).text =
                InsertAt(TextsOf(prev).text, last.row + 2,
                         [j \in 1..prev.columnCount |-> EmptyText])
           /\ npush = prev.npush + 1
           /\ undo_stack = Pushed(prev.undo_stack, InsertRowCommand(last.row + 1))
    /\ last.op = "insert_column"
        => /\ columnCount = prev.columnCount + 1
           /\ rowCount(State) = rowCount(prev)
           /\ TextsOf(State).text =
                [i \in 1..rowCount(prev) |->
                    InsertAt(TextsOf(prev).text[i], last.col + 2, EmptyText)]
           /\ npush = prev.npush + 1
           /\ undo_stack = Pushed(prev.undo_stack, InsertColumnCommand(last.col + 1))

\* insert_row_at(0) on the table of rows "a b" and "c": row 0 stays, row 1
\* is the new empty row and the row of "c" is row 2
C15_Witness ==
    /\ last.op = "insert_row"
    /\ last.row = 0
    /\ rowCount(prev) = 2
    /\ cellText(prev, 1, 0) = <<"c">>
    /\ cellText(State, 0, 0) = cellText(prev, 0, 0)
    /\ cellText(State, 1, 0) = EmptyText
    /\ cellText(State, 2, 0) = <<"c">>
    /\ top(undo_stack) = InsertRowCommand(1)

(***************************************************************************)
(* The column selection order.                                             *)
(***************************************************************************)
\* the entries of seq that are in set S, in their order
RECURSIVE Restrict(_, _)
Restrict(seq, S) ==
    IF seq = <<>> THEN <<>>
    ELSE (IF Head(seq) \in S THEN <<Head(seq)>> ELSE <<>>) \o Restrict(Tail(seq), S)

\* C16: column_selection_order holds no column index more than once
C16_NoDuplicateColumns ==
    \A i, k \in 1..Len(column_selection_order) :
        i # k => column_selection_order[i] # column_selection_order[k]

\* a cell of a selected column that was already in the order, among other
\* columns, was clicked: the column is in the order once, at the tail
C16_Witness ==
    /\ last.op \in {"click", "ctrl_click"}
    /\ isColumnSelected(prev, last.col)
    /\ Len(prev.column_selection_order) >= 2
    /\ prev.column_selection_order[1] = last.col
    /\ Len(column_selection_order) = Len(prev.column_selection_order)
    /\ column_selection_order[Len(column_selection_order)] = last.col
    /\ C16_NoDuplicateColumns

\* C17: a click that adds column col to the selection appends col to the
\* selection order, the entries before it staying in their order, or moves
\* col to the tail when the order held it: after columns 5 and 2 the order is
\* [5, 2]
C17_RecordColumn ==
    last.op = "ctrl_click"
        => column_selection_order =
                Append(Restrict(prev.column_selection_order, Nat \ {last.col}), last.col)

\* C18 as stated: get_selection_order() is the selection order without the
\* entries outside [0, columnCount), and nothing else is left out
C18_SelectionOrderInRange ==
    get_selection_order(State) =
        Restrict(column_selection_order, 0..(columnCount - 1))

\* C18: get_selection_order() is the selection order, in its order, without
\* the entries outside [0, columnCount) and without the hidden columns; no
\* entry of it is >= columnCount
C18_SelectionOrderShown ==
    /\ get_selection_order(State) =
            Restrict(column_selection_order, (0..(columnCount - 1)) \ hidden)
    /\ \A k \in 1..Len(get_selection_order(State)) :
            get_selection_order(State)[k] < columnCount

\* a column was deleted while the order held two columns: the index that no
\* longer exists is left out and the other entry is returned
C18_Witness ==
    /\ last.op = "delete_column"
    /\ Len(column_selection_order) = 2
    /\ \E k \in 1..2 : column_selection_order[k] >= columnCount
    /\ Len(get_selection_order(State)) = 1
    /\ get_selection_order(State)[1] < columnCount

\* the texts of column col of table s
ColumnTexts(s, col) == [i \in 1..rowCount(s) |-> cellText(s, i - 1, col)]

\* C19: when the selection order holds two columns or more, the difference
\* column is the order's first column minus its second: its header names
\* them in that order and its cells hold their differences
C19_DiffOperands ==
    (/\ last.op = "calculate_diff"
     /\ columnCount = prev.columnCount + 1
     /\ Len(get_selection_order(prev)) >= 2)
        => LET A == get_selection_order(prev)[1]
               B == get_selection_order(prev)[2]
           IN  /\ headerText(State, columnCount - 1) =
                    headerText(prev, A) \o "-" \o headerText(prev, B) \o "diff"
               /\ ColumnTexts(State, columnCount - 1) =
                    compute_diffs(ColumnTexts(prev, A), ColumnTexts(prev, B))

\* C20: a user mutation that changes the table adds exactly one command to
\* the undo stack, and one undo() gives every cell that existed before the
\* mutation the text it had
C20_OneCommandPerMutation ==
    (last.op \in MutOps /\ TextsOf(State) # TextsOf(prev))
        => /\ npush = prev.npush + 1
           /\ \A r \in 0..(rowCount(prev) - 1), c \in 0..(prev.columnCount - 1) :
                InRange(undo(State), r, c)
                    /\ cellText(undo(State), r, c) = cellText(prev, r, c)

(***************************************************************************)
(* Handlers inside an operation.                                           *)
(***************************************************************************)
\* C21: no handler runs while a command's replay is partly done: whenever
\* on_item_changed records inside a paste, an undo() or a redo(), the texts
\* of the table are those from before the operation or those the operation
\* leaves, never something in between
C21_NoPartialReplayObserved ==
    last.op \in {"paste", "undo", "redo"}
        => \A k \in 1..Len(recordings) :
                recordings[k].texts \in {TextsOf(prev), TextsOf(State)}

(***************************************************************************)
(* The reload.                                                             *)
(***************************************************************************)
\* C22: after a reload the selection order is empty: no entry recorded
\* before the reload is left
C22_ReloadClearsSelectionOrder ==
    last.op = "reload" => column_selection_order = <<>>

(***************************************************************************)
(* Recording.                                                              *)
(***************************************************************************)
\* C23: on_item_changed records only user edits: during undo(), redo(), a
\* paste, a cut and a Delete-key clear, whose cell writes are made by the
\* program, it never enters its recording branch, so it pushes no command
\* and clears no redo stack, also when the cell written is the current item
C23_OnlyUserEditsRecorded ==
    last.op \in {"undo", "redo", "paste", "cut", "delete_key"}
        => recordings = <<>>

\* the table already showed the forward effect of its command when the push
\* noted in e was made
Applied(e) ==
    LET cmd == e.command
    IN  CASE cmd.kind = "CellChange" ->
                e.texts.text[cmd.row + 1][cmd.col + 1] = cmd.new_text
          [] cmd.kind = "Paste" ->
                \A i \in 1..Len(cmd.new_data) : \A j \in 1..Len(cmd.new_data[i]) :
                    e.texts.text[cmd.start_row + i][cmd.start_col + j] = cmd.new_data[i][j]
          [] cmd.kind = "InsertRow" ->
                /\ e.texts.rows = rowCount(prev) + 1
                /\ e.texts.text[cmd.row + 1] = [j \in 1..prev.columnCount |-> EmptyText]
          [] cmd.kind = "InsertColumn" ->
                /\ e.texts.cols = prev.columnCount + 1
                /\ \A i \in 1..e.texts.rows : e.texts.text[i][cmd.col + 1] = EmptyText
          [] cmd.kind = "DeleteRow" ->
                e.texts.text = RemoveAt(TextsOf(prev).text, cmd.row + 1)
          [] cmd.kind = "DeleteColumn" ->
                e.texts.text =
                    [i \in 1..rowCount(prev) |-> RemoveAt(TextsOf(prev).text[i], cmd.col + 1)]

\* the last n entries of seq, all of them when it has fewer
LastOf(seq, n) ==
    IF Len(seq) <= n THEN seq ELSE SubSeq(seq, Len(seq) - n + 1, Len(seq))

\* the pushes of the last operation went onto the undo stack in their
\* order, the oldest entries leaving at capacity, and the redo stack is empty
PushedInOrder ==
    pushes # <<>>
        => /\ undo_stack =
                LastOf(prev.undo_stack \o [k \in 1..Len(pushes) |-> pushes[k].command],
                       max_history)
           /\ redo_stack = <<>>

\* C24 as stated: in every operation that records a command, the cut and
\* the Delete-key clear among them, each push_command call is made when the
\* table already shows the command's forward effect
C24_AppliedBeforePush ==
    last.op \in MutOps
        => /\ \A k \in 1..Len(pushes) : Applied(pushes[k])
           /\ PushedInOrder

\* the items a cut or a Delete-key clear makes a command for
Cleared ==
    LET HasText(x) == last.op = "cut" \/ cellText(prev, x[1], x[2]) # EmptyText
    IN  SelectSeq(selectedItems(prev), HasText)

\* C24: in a cell edit, an insert or delete of a row or column and a paste,
\* each push_command call is made when the table already shows the
\* command's forward effect; a cut and a Delete-key clear call push_command
\* for the command of each item while the item still holds its text, and
\* clear the text after that; push_command appends to the undo stack, the
\* oldest entry leaving above max_history, and clears the redo stack
C24_PushOrder ==
    /\ last.op \in MutOps \ {"cut", "delete_key"}
        => \A k \in 1..Len(pushes) : Applied(pushes[k])
    /\ last.op \in {"cut", "delete_key"}
        => \A n \in 1..Len(Cleared) :
            LET row == Cleared[n][1]
                col == Cleared[n][2]
                text == cellText(prev, row, col)
            IN  /\ \E k \in 1..Len(pushes) :
                        /\ pushes[k].command = CellChangeCommand(row, col, text, EmptyText)
                        /\ pushes[k].texts.text[row + 1][col + 1] = text
                /\ cellText(State, row, col) = EmptyText
    /\ last.op \in MutOps => PushedInOrder

\* a cell that read "3" was cut: its command was pushed while the cell still
\* read "3", and the cell is empty now
C24_Witness ==
    /\ last.op = "cut"
    /\ \E k \in 1..Len(pushes) :
        LET cmd == pushes[k].command
        IN  /\ cmd.old_text = <<"3">>
            /\ cmd.new_text = EmptyText
            /\ cellText(prev, cmd.row, cmd.col) = <<"3">>
            /\ pushes[k].texts.text[cmd.row + 1][cmd.col + 1] = <<"3">>
            /\ ~Applied(pushes[k])
            /\ cellText(State, cmd.row, cmd.col) = EmptyText
    /\ redo_stack = <<>>

(***************************************************************************)
(* The modified flag.                                                      *)
(***************************************************************************)
\* C25: every operation that changes a text or a count of the table, a user
\* edit, an insert or delete of a row or column, a paste, a cut, a
\* Delete-key clear, undo() or redo(), emits contentChanged, and the
\* viewer's modified flag is true after it
C25_ContentChangedEmitted ==
    (last.op \in MutOps \cup {"undo", "redo"} /\ TextsOf(State) # TextsOf(prev))
        => (emitted > 0 /\ modified)

(***************************************************************************)
(* The drag.                                                               *)
(***************************************************************************)
\* the columns from s to e, s first
FromTo(s, e) ==
    [k \in 1..((IF s < e THEN e - s ELSE s - e) + 1) |->
        IF s < e THEN s + k - 1 ELSE s - k + 1]

\* C26: after a drag from column s to another column e the selection order
\* is the visible columns from s to e in the direction of the drag: s, s+1,
\* ..., e from left to right and s, s-1, ..., e from right to left
C26_DragDirection ==
    last.op = "drag"
        => column_selection_order =
                Restrict(FromTo(current_selection_start, last.col),
                         (0..(columnCount - 1)) \ hidden)

(***************************************************************************)
(* Indices outside the table.                                              *)
(***************************************************************************)
\* C27: delete_row_at(r) with r < 0 or r >= rowCount, delete_column_at(c)
\* with c < 0 or c >= columnCount, and insert_row_at and insert_column_at
\* with an index below -1 change neither the grid nor the header nor a
\* stack: nothing is pushed and the redo stack keeps its commands
C27_OutsideIndexNoEffect ==
    last.op \in OutsideOps
        => /\ grid = prev.grid
           /\ columnCount = prev.columnCount
           /\ header = prev.header
           /\ undo_stack = prev.undo_stack
           /\ redo_stack = prev.redo_stack
           /\ pushes = <<>>
           /\ npush = prev.npush

\* delete_row_at was called with the row count as index while the redo stack
\* held a command: the command is still there and the rows are as before
C27_Witness ==
    /\ last.op = "delete_row_outside"
    /\ last.row = rowCount(prev)
    /\ prev.redo_stack # <<>>
    /\ redo_stack = prev.redo_stack
    /\ undo_stack = prev.undo_stack
    /\ grid = prev.grid

(***************************************************************************)
(* The two stacks together.                                                *)
(***************************************************************************)
\* C28: the two stacks together never hold more than max_history commands,
\* so that undo() never finds the redo stack, and redo() never finds the
\* undo stack, above capacity after its append
C28_StacksTogetherBounded ==
    Len(undo_stack) + Len(redo_stack) <= max_history

(***************************************************************************)
(* undo() and then redo().                                                 *)
(***************************************************************************)
\* C29: with a command on the undo stack, undo() and redo() right after it
\* leave every text, both counts, the undo stack and the redo stack as they
\* were before the undo(), whatever the kind of the command
C29_UndoThenRedo ==
    undo_stack # <<>>
        => LET v == redo(undo(State))
           IN  /\ TextsOf(v) = TextsOf(State)
               /\ v.undo_stack = undo_stack
               /\ v.redo_stack = redo_stack

(***************************************************************************)
(* What the selection order and the history leave to each other.           *)
(***************************************************************************)
\* C30: a cell edit, an insert or delete of a row or column, a paste,
\* undo() and redo() leave column_selection_order as it is, its entries
\* neither moved nor removed with the columns; a click, a drag and Ctrl+A,
\* which record columns, change no text, no count and no stack
C30_SelectionOrderFrame ==
    /\ last.op \in {"edit", "insert_row", "insert_column", "delete_row",
                    "delete_column", "paste", "undo", "redo"}
        => column_selection_order = prev.column_selection_order
    /\ last.op \in {"click", "ctrl_click", "drag", "select_all"}
        => /\ TextsOf(State) = TextsOf(prev)
           /\ undo_stack = prev.undo_stack
           /\ redo_stack = prev.redo_stack
           /\ pushes = <<>>

\* a column was deleted while the order held a column to its right: the
\* entry is still there with the index it had
C30_Witness ==
    /\ last.op = "delete_column"
    /\ columnCount = prev.columnCount - 1
    /\ \E k \in 1..Len(prev.column_selection_order) :
            prev.column_selection_order[k] > last.col
    /\ \E k \in 1..Len(prev.column_selection_order) :
            prev.column_selection_order[k] = last.col
    /\ column_selection_order = prev.column_selection_order
    /\ undo_stack # prev.undo_stack

====
